---- MODULE Spec2Model ----
(***************************************************************************)
(* FlyNet: the metrics engine (simulator/metrics.py), the run             *)
(* orchestration (simulator/simulator.py) and the packet-attribute        *)
(* sampler (utils/distributions.py).                                       *)
(*                                                                         *)
(* The specifications share the variables:                                 *)
(*   Spec          the Metrics object driven by its callers                *)
(*   SpecSim       the two simpy processes of Simulator (show_time,        *)
(*                 show_performance) on the event queue                    *)
(*   SpecPop       the population loop of Simulator.__init__               *)
(*   SpecCounters  count and value, with the calls made kept as a trace    *)
(*   SpecRatio     one run from the first packet to the printed summary    *)
(*   SpecSampler   sample_packet_attributes in two executions              *)
(*   SpecStats     the record calls, plot_basic_stats, count and value     *)
(*                                                                         *)
(* Numbers: samples are integers and every mean or ratio is kept as an     *)
(* exact reduced fraction [num, den]; numpy's mean of an empty list is the *)
(* value NaN, Python's int / 0 raises ZeroDivisionError.                   *)
(***************************************************************************)
EXTENDS Integers, Sequences, FiniteSets, TLC

\* ---------------------------------------------------------------- bounds
MaxPackets == 2
MaxCount == 1
MaxSamples == 1
MaxListLen == 3

PacketIds == 1..MaxPackets
\* (latency, throughput sample, hop count) of the delivery of packet id:
\* different packets are delivered with different figures
FactOf(id) == [t |-> 1000 * id, thr |-> 6000 \div id, hop |-> id]
MacDelaySet == {4}
Deltas == {-1, 1}

\* ------------------------------------------------------------ variables
VARIABLES
    \* Metrics.__init__
    control_packet_num, datapacket_generated, datapacket_arrived,
    datapacket_generated_num,
    delivery_time, deliver_time_dict,
    throughput, throughput_dict,
    hop_cnt, hop_cnt_dict,
    mac_delay, collision_num,
    packet_sizes, packet_type_counts, packet_priority_counts, uav_capacities,
    dynamic, queue_length_log, delay_by_priority,
    \* the last call on the engine: what it raised, what it returned, and
    \* (print_metrics) the figures it emitted
    raised, ret, summary,
    \* simulator/network_results.txt: number of blocks appended
    network_results,
    \* simpy environment and the two processes of Simulator
    total_simulation_time, env_now, env_queue, env_eid, env_crashed,
    perf_pc, time_pc, fired,
    \* utils/config.py ENABLE_STATS and the ./results directory
    ENABLE_STATS, results_dir, results_files, plot_calls,
    \* Simulator.__init__ population loop
    HETEROGENEOUS, n_nodes, idx, sensor_drone_flag, drones,
    \* the count / value calls made so far, in order
    calls,
    \* two executions of the sampler: the state of Python's `random`, the
    \* state of numpy's global generator, and the profiles returned so far
    py_random, np_random, samples,
    py_random2, np_random2, samples2

listVars == <<delivery_time, throughput, hop_cnt>>
dictVars == <<deliver_time_dict, throughput_dict, hop_cnt_dict>>
packetVars == <<datapacket_generated, datapacket_arrived>>
counterVars == <<control_packet_num, datapacket_generated_num, collision_num>>
statVars == <<packet_sizes, packet_type_counts, packet_priority_counts,
              uav_capacities>>
logVars == <<queue_length_log, delay_by_priority>>
\* every field of the Metrics object
engineVars == <<listVars, dictVars, packetVars, counterVars, mac_delay,
                statVars, dynamic, logVars>>
callVars == <<raised, ret, summary, network_results>>
envVars == <<total_simulation_time, env_now, env_queue, env_eid, env_crashed,
             perf_pc, time_pc, fired>>
chartVars == <<ENABLE_STATS, results_dir, results_files, plot_calls>>
popVars == <<HETEROGENEOUS, n_nodes, idx, sensor_drone_flag, drones>>
samplerVars == <<py_random, np_random, samples,
                 py_random2, np_random2, samples2>>
vars == <<engineVars, callVars, envVars, chartVars, popVars, calls,
          samplerVars>>

\* ------------------------------------------------------------- numbers
Abs(x) == IF x < 0 THEN -x ELSE x

RECURSIVE GCD(_, _)
GCD(a, b) == IF b = 0 THEN a ELSE GCD(b, a % b)

\* the fraction n / d, d # 0, reduced, with a positive denominator
Rat(n, d) ==
    LET g == GCD(Abs(n), Abs(d))
        s == IF d < 0 THEN -1 ELSE 1
    IN  [num |-> (s * n) \div g, den |-> (s * d) \div g]

RECURSIVE SumSeq(_)
SumSeq(s) == IF s = <<>> THEN 0 ELSE Head(s) + SumSeq(Tail(s))

NaN == "nan"

\* np.mean(list) / scale: NaN (with a RuntimeWarning, no exception) on []
Mean(s, scale) == IF s = <<>> THEN NaN ELSE Rat(SumSeq(s), Len(s) * scale)

\* the values of an insertion-ordered dict, in key order
Values(d) == [i \in 1..Len(d) |-> d[i].val]
Keys(d) == {d[i].key : i \in 1..Len(d)}

\* ------------------------------------------------------ Metrics.__init__
MetricsInit ==
    /\ control_packet_num = 0
    /\ datapacket_generated = {}
    /\ datapacket_arrived = {}
    /\ datapacket_generated_num = 0
    /\ delivery_time = <<>>
    /\ deliver_time_dict = <<>>
    /\ throughput = <<>>
    /\ throughput_dict = <<>>
    /\ hop_cnt = <<>>
    /\ hop_cnt_dict = <<>>
    /\ mac_delay = <<>>
    /\ collision_num = 0
    /\ packet_sizes = <<>>
    /\ packet_type_counts = <<>>
    /\ packet_priority_counts = <<>>
    /\ uav_capacities = <<>>
    /\ dynamic = <<>>
    /\ queue_length_log = <<>>
    /\ delay_by_priority = <<>>

NoSummary == [kind |-> "none"]

CallInit ==
    /\ raised = "none"
    /\ summary = NoSummary
    /\ ret = "none"
    /\ network_results = 0

\* ------------------------------------------------- packet life cycle
\* register_generated(packet): the generated set and the generated counter
RegisterGeneratedBody(id) ==
    /\ ret' = "none"
    /\ summary' = NoSummary
    /\ UNCHANGED network_results
    /\ IF id \in datapacket_generated
       THEN /\ raised' = "DuplicateIdError"
            /\ UNCHANGED engineVars
       ELSE /\ raised' = "none"
            /\ datapacket_generated' = datapacket_generated \cup {id}
            /\ datapacket_generated_num' = datapacket_generated_num + 1
            /\ UNCHANGED <<listVars, dictVars, datapacket_arrived,
                           control_packet_num, collision_num, mac_delay,
                           statVars, dynamic, logVars>>

\* register_arrived mutated: the arrival is stored whether or not the id was generated
RegisterArrivedUnchecked(id, f) ==
    /\ ret' = "none"
    /\ raised' = "none"
    /\ summary' = NoSummary
    /\ UNCHANGED network_results
    /\ IF id \in datapacket_arrived
       THEN UNCHANGED engineVars
       ELSE /\ datapacket_arrived' = datapacket_arrived \cup {id}
            /\ deliver_time_dict' =
                   Append(deliver_time_dict, [key |-> id, val |-> f.t])
            /\ throughput_dict' =
                   Append(throughput_dict, [key |-> id, val |-> f.thr])
            /\ hop_cnt_dict' =
                   Append(hop_cnt_dict, [key |-> id, val |-> f.hop])
            /\ UNCHANGED <<listVars, datapacket_generated, counterVars,
                           mac_delay, statVars, dynamic, logVars>>

\* register_arrived(packetId, arrivalTime, hopCount, throughputSample)
RegisterArrivedBody(id, f) ==
    /\ ret' = "none"
    /\ summary' = NoSummary
    /\ UNCHANGED network_results
    /\ IF id \notin datapacket_generated
       THEN /\ raised' = "UnknownPacketError"
            /\ UNCHANGED engineVars
       ELSE /\ raised' = "none"
            /\ IF id \in datapacket_arrived
               THEN UNCHANGED engineVars
               ELSE /\ datapacket_arrived' = datapacket_arrived \cup {id}
                    /\ deliver_time_dict' =
                           Append(deliver_time_dict, [key |-> id, val |-> f.t])
                    /\ throughput_dict' =
                           Append(throughput_dict, [key |-> id, val |-> f.thr])
                    /\ hop_cnt_dict' =
                           Append(hop_cnt_dict, [key |-> id, val |-> f.hop])
                    /\ UNCHANGED <<listVars, datapacket_generated, counterVars,
                                   mac_delay, statVars, dynamic, logVars>>

\* record_mac_delay(value)
RecordMacDelayBody(v) ==
    /\ ret' = "none"
    /\ raised' = "none"
    /\ summary' = NoSummary
    /\ mac_delay' = Append(mac_delay, v)
    /\ UNCHANGED <<network_results, listVars, dictVars, packetVars,
                   counterVars, statVars, dynamic, logVars>>

\* ------------------------------------------------------ count / value
\* attributes of a Metrics object that hold an int
IntAttrs == {"control_packet_num", "datapacket_generated_num", "collision_num"}
\* its other attributes: fields holding a set, list, dict or object, and methods
OtherAttrs == {"simulator", "datapacket_generated", "datapacket_arrived",
               "delivery_time", "deliver_time_dict", "throughput",
               "throughput_dict", "hop_cnt", "hop_cnt_dict", "mac_delay",
               "packet_sizes", "packet_type_counts", "packet_priority_counts",
               "uav_capacities", "_dynamic", "queue_length_log",
               "delay_by_priority", "count", "value", "record_packet_stat",
               "record_uav_capacity", "record_queue_length", "record_delay",
               "print_metrics", "plot_basic_stats"}
HasAttr(key) == key \in IntAttrs \cup OtherAttrs

GetIntAttr(key) ==
    CASE key = "control_packet_num" -> control_packet_num
      [] key = "datapacket_generated_num" -> datapacket_generated_num
      [] key = "collision_num" -> collision_num

\* _dynamic is a defaultdict(int): a missing key reads as 0
DynamicGet(key, default) ==
    IF key \in DOMAIN dynamic THEN dynamic[key] ELSE default

\* count mutated: the delta overwrites the counter instead of adding to it
CountNewValOverwrite(key, delta) == delta

\* the value count(key, delta) stores and returns, when it returns
CountNewVal(key, delta) ==
    IF key \in IntAttrs THEN GetIntAttr(key) + delta
    ELSE DynamicGet(key, 0) + delta

CountBody(key, delta) ==
    /\ summary' = NoSummary
    /\ UNCHANGED network_results
    /\ IF HasAttr(key)
       THEN IF key \in IntAttrs
            THEN /\ raised' = "none"
                 /\ ret' = CountNewVal(key, delta)
                 /\ control_packet_num' =
                        IF key = "control_packet_num"
                        THEN CountNewVal(key, delta) ELSE control_packet_num
                 /\ datapacket_generated_num' =
                        IF key = "datapacket_generated_num"
                        THEN CountNewVal(key, delta) ELSE datapacket_generated_num
                 /\ collision_num' =
                        IF key = "collision_num"
                        THEN CountNewVal(key, delta) ELSE collision_num
                 /\ UNCHANGED <<listVars, dictVars, packetVars, mac_delay,
                                statVars, dynamic, logVars>>
            \* getattr(self, key) + delta on a set, list, dict or method
            ELSE /\ raised' = "TypeError"
                 /\ ret' = "none"
                 /\ UNCHANGED engineVars
       ELSE /\ raised' = "none"
            /\ ret' = CountNewVal(key, delta)
            /\ dynamic' = (key :> CountNewVal(key, delta)) @@ dynamic
            /\ UNCHANGED <<listVars, dictVars, packetVars, counterVars,
                           mac_delay, statVars, logVars>>

\* ------------------------------------------------------- print_metrics
\* lines 160-167: every dict value is appended to its display list
AppendValues(list, dict) == list \o Values(dict)

\* print_metrics mutated: the PDR is left a fraction (no * 100) and the
\* routing load is taken per generated packet
PrintOutcomeWrongRatios(dt, th, hc, io_ok) ==
    IF datapacket_generated_num = 0
    THEN [kind |-> "raise", exc |-> "ZeroDivisionError", line |-> 171]
    ELSE IF datapacket_arrived = {}
    THEN [kind |-> "raise", exc |-> "ZeroDivisionError", line |-> 173]
    ELSE IF ~io_ok
    THEN [kind |-> "raise", exc |-> "OSError", line |-> 186]
    ELSE [kind |-> "ok",
          arrived |-> Cardinality(datapacket_arrived),
          generated |-> datapacket_generated_num,
          pdr |-> Rat(Cardinality(datapacket_arrived),
                      datapacket_generated_num),
          e2e_delay |-> Mean(dt, 1000),
          rl |-> Rat(control_packet_num, datapacket_generated_num),
          throughput |-> Mean(th, 1000),
          hop_cnt |-> Mean(hc, 1),
          collision_num |-> collision_num,
          average_mac_delay |-> Mean(mac_delay, 1)]

\* lines 169-206 on display lists dt, th, hc; io_ok: the results file opens
PrintOutcome(dt, th, hc, io_ok) ==
    IF datapacket_generated_num = 0
    THEN [kind |-> "raise", exc |-> "ZeroDivisionError", line |-> 171]
    ELSE IF datapacket_arrived = {}
    THEN [kind |-> "raise", exc |-> "ZeroDivisionError", line |-> 173]
    ELSE IF ~io_ok
    THEN [kind |-> "raise", exc |-> "OSError", line |-> 186]
    ELSE [kind |-> "ok",
          arrived |-> Cardinality(datapacket_arrived),
          generated |-> datapacket_generated_num,
          pdr |-> Rat(Cardinality(datapacket_arrived) * 100,
                      datapacket_generated_num),
          e2e_delay |-> Mean(dt, 1000),
          rl |-> Rat(control_packet_num, Cardinality(datapacket_arrived)),
          throughput |-> Mean(th, 1000),
          hop_cnt |-> Mean(hc, 1),
          collision_num |-> collision_num,
          average_mac_delay |-> Mean(mac_delay, 1)]

PrintMetricsBody(io_ok) ==
    LET out == PrintOutcome(AppendValues(delivery_time, deliver_time_dict),
                            AppendValues(throughput, throughput_dict),
                            AppendValues(hop_cnt, hop_cnt_dict), io_ok)
    IN  /\ ret' = "none"
        /\ delivery_time' = AppendValues(delivery_time, deliver_time_dict)
        /\ throughput' = AppendValues(throughput, throughput_dict)
        /\ hop_cnt' = AppendValues(hop_cnt, hop_cnt_dict)
        /\ raised' = IF out.kind = "raise" THEN out.exc ELSE "none"
        /\ summary' = out
        /\ network_results' =
               IF out.kind = "ok" THEN network_results + 1 ELSE network_results
        /\ UNCHANGED <<dictVars, packetVars, counterVars, mac_delay, statVars,
                       dynamic, logVars>>

\* ------------------------------------------------ the engine's callers
CountKeys == {"control_packet_num", "datapacket_generated_num", "mac_delay"}

RegisterGenerated ==
    \E id \in PacketIds :
        /\ RegisterGeneratedBody(id)
        /\ UNCHANGED <<envVars, chartVars, popVars, calls, samplerVars>>

RegisterArrived ==
    \E id \in PacketIds :
        /\ RegisterArrivedBody(id, FactOf(id))
        /\ UNCHANGED <<envVars, chartVars, popVars, calls, samplerVars>>

RecordMacDelay ==
    \E v \in MacDelaySet :
        /\ Len(mac_delay) < MaxSamples
        /\ RecordMacDelayBody(v)
        /\ UNCHANGED <<envVars, chartVars, popVars, calls, samplerVars>>

Count ==
    \E key \in CountKeys, delta \in Deltas :
        /\ (HasAttr(key) /\ key \notin IntAttrs)
               \/ Abs(CountNewVal(key, delta)) <= MaxCount
        /\ CountBody(key, delta)
        /\ UNCHANGED <<envVars, chartVars, popVars, calls, samplerVars>>

PrintMetrics ==
    \E io_ok \in BOOLEAN :
        /\ Len(delivery_time) + Len(deliver_time_dict) <= MaxListLen
        /\ PrintMetricsBody(io_ok)
        /\ UNCHANGED <<envVars, chartVars, popVars, calls, samplerVars>>

\* the other variables are not part of the engine's specification
Idle ==
    /\ total_simulation_time = 1 /\ env_now = 0 /\ env_queue = {}
    /\ env_eid = 0 /\ env_crashed = FALSE
    /\ perf_pc = "new" /\ time_pc = "new" /\ fired = <<>>

ChartIdle ==
    /\ ENABLE_STATS = FALSE
    /\ results_dir = FALSE
    /\ results_files = {}
    /\ plot_calls = 0

PopIdle ==
    /\ HETEROGENEOUS = FALSE /\ n_nodes = 0 /\ idx = 0
    /\ sensor_drone_flag = 0 /\ drones = <<>>

\* no count / value call traced, no sampler run
NoCalls == calls = <<>>

SamplerIdle ==
    /\ py_random = 0 /\ np_random = 0 /\ samples = <<>>
    /\ py_random2 = 0 /\ np_random2 = 0 /\ samples2 = <<>>

Init ==
    /\ MetricsInit /\ CallInit /\ Idle /\ ChartIdle /\ PopIdle
    /\ NoCalls /\ SamplerIdle

Next ==
    \/ RegisterGenerated
    \/ RegisterArrived
    \/ RecordMacDelay
    \/ Count
    \/ PrintMetrics

Spec == Init /\ [][Next]_vars

\* ---------------------------------------------------- plot_basic_stats
\* the chart files written for the non-empty datasets (lines 229-267)
ChartFiles ==
    (IF packet_sizes # <<>> THEN {"packet_size_hist.png"} ELSE {})
    \cup (IF DOMAIN packet_type_counts # {}
          THEN {"packet_type_bar.png"} ELSE {})
    \cup (IF DOMAIN packet_priority_counts # {}
          THEN {"packet_priority_bar.png"} ELSE {})
    \cup (IF uav_capacities # <<>> THEN {"uav_capacity_hist.png"} ELSE {})

PlotBasicStatsBody ==
    /\ plot_calls' = plot_calls + 1
    /\ UNCHANGED ENABLE_STATS
    /\ IF ~ENABLE_STATS
       THEN UNCHANGED <<results_dir, results_files>>
       ELSE /\ results_dir' = TRUE
            /\ results_files' = results_files \cup ChartFiles

\* ------------------------------------------- Simulator: the two processes
\* show_time's period (0.5 * 1e6)
Interval == 500000
MaxBeats == 4

\* config.SIM_TIME values: the terminal time T - 1 falls on the first
\* heartbeat, between two heartbeats, and on a later heartbeat (T >= 1:
\* env.timeout rejects the negative delay of a shorter run)
Durations == {1, 2, Interval + 1, 2 * Interval}

\* simpy event priorities: Initialize events are URGENT, the others NORMAL
URGENT == 0
NORMAL == 1

Event(t, prio, kind) ==
    [time |-> t, prio |-> prio, eid |-> env_eid, kind |-> kind]

\* the queue order of simpy: (time, priority, event id)
Before(e, f) ==
    \/ e.time < f.time
    \/ e.time = f.time /\ e.prio < f.prio
    \/ e.time = f.time /\ e.prio = f.prio /\ e.eid < f.eid

\* mutated order: among events of one time and priority, the newest first
NextEventNewestFirst ==
    CHOOSE e \in env_queue : \A f \in env_queue :
        \/ e = f
        \/ e.time < f.time
        \/ e.time = f.time /\ e.prio < f.prio
        \/ e.time = f.time /\ e.prio = f.prio /\ e.eid > f.eid

\* heappop(env._queue)
NextEvent ==
    CHOOSE e \in env_queue : \A f \in env_queue : e = f \/ Before(e, f)

\* mutated delay of the terminal action
TerminalDelayWholeRun == total_simulation_time

\* show_performance: yield self.env.timeout(self.total_simulation_time - 1)
TerminalDelay == total_simulation_time - 1

Beats == Cardinality({i \in DOMAIN fired :
                         fired[i].kind \in {"init_time", "timeout_time"}})

\* Simulator.__init__ lines 70-71: both processes created, nothing run yet
SimInit ==
    /\ total_simulation_time \in Durations
    /\ env_now = 0
    /\ env_queue = {[time |-> 0, prio |-> URGENT, eid |-> 0,
                     kind |-> "init_perf"],
                    [time |-> 0, prio |-> URGENT, eid |-> 1,
                     kind |-> "init_time"]}
    /\ env_eid = 2
    /\ env_crashed = FALSE
    /\ perf_pc = "new"
    /\ time_pc = "new"
    /\ fired = <<>>

Pop(e) ==
    /\ env_now' = e.time
    /\ fired' = Append(fired, [time |-> e.time, eid |-> e.eid, kind |-> e.kind])
    /\ env_eid' = env_eid + 1

\* show_performance starts: it runs to its yield
StartPerformance ==
    /\ ~env_crashed /\ env_queue # {}
    /\ LET e == NextEvent IN
        /\ e.kind = "init_perf"
        /\ Pop(e)
        /\ env_queue' = (env_queue \ {e})
               \cup {Event(e.time + TerminalDelay, NORMAL, "timeout_perf")}
        /\ perf_pc' = "waiting"
        /\ UNCHANGED <<total_simulation_time, env_crashed, time_pc>>
    /\ UNCHANGED <<engineVars, callVars, chartVars, popVars, calls,
                 samplerVars>>

\* show_time prints the time and yields timeout(0.5 * 1e6): at its start
\* and at every later resumption
ShowTime ==
    /\ ~env_crashed /\ env_queue # {}
    /\ Beats < MaxBeats
    /\ LET e == NextEvent IN
        /\ e.kind \in {"init_time", "timeout_time"}
        /\ Pop(e)
        /\ env_queue' = (env_queue \ {e})
               \cup {Event(e.time + Interval, NORMAL, "timeout_time")}
        /\ time_pc' = "waiting"
        /\ UNCHANGED <<total_simulation_time, env_crashed, perf_pc>>
    /\ UNCHANGED <<engineVars, callVars, chartVars, popVars, calls,
                 samplerVars>>

\* show_performance resumes: (scatter_plot, which touches none of this
\* state,) print_metrics, then plot_basic_stats, then the
\* generator ends; an exception of print_metrics ends it at once and fails
\* the process, whose event is then due at the current time
ShowPerformance ==
    /\ ~env_crashed /\ env_queue # {}
    /\ LET e == NextEvent IN
        /\ e.kind = "timeout_perf"
        /\ Pop(e)
        /\ \E io_ok \in BOOLEAN :
            /\ PrintMetricsBody(io_ok)
            /\ IF raised' # "none"
               THEN /\ perf_pc' = "failed"
                    /\ env_queue' = (env_queue \ {e})
                           \cup {Event(e.time, NORMAL, "failed_perf")}
                    /\ UNCHANGED chartVars
               ELSE /\ perf_pc' = "done"
                    /\ env_queue' = (env_queue \ {e})
                           \cup {Event(e.time, NORMAL, "ended_perf")}
                    /\ PlotBasicStatsBody
        /\ UNCHANGED <<total_simulation_time, env_crashed, time_pc>>
    /\ UNCHANGED <<popVars, calls, samplerVars>>

\* the event of the ended process is processed: nobody waits for it; the
\* exception of a failed process is re-raised by env.step and ends env.run
ProcessEnded ==
    /\ ~env_crashed /\ env_queue # {}
    /\ LET e == NextEvent IN
        /\ e.kind \in {"ended_perf", "failed_perf"}
        /\ Pop(e)
        /\ env_queue' = env_queue \ {e}
        /\ env_crashed' = (e.kind = "failed_perf")
        /\ UNCHANGED <<total_simulation_time, perf_pc, time_pc>>
    /\ UNCHANGED <<engineVars, callVars, chartVars, popVars, calls,
                 samplerVars>>

\* the collaborators report packets while the timeline runs
SimRegisterGenerated == ~env_crashed /\ RegisterGenerated
SimRegisterArrived == ~env_crashed /\ RegisterArrived

ChartInit ==
    /\ ENABLE_STATS \in BOOLEAN
    /\ results_dir = FALSE
    /\ results_files = {}
    /\ plot_calls = 0

InitSim ==
    /\ MetricsInit /\ CallInit /\ SimInit /\ ChartInit /\ PopIdle
    /\ NoCalls /\ SamplerIdle

NextSim ==
    \/ StartPerformance
    \/ ShowTime
    \/ ShowPerformance
    \/ ProcessEnded
    \/ SimRegisterGenerated
    \/ SimRegisterArrived

SpecSim == InitSim /\ [][NextSim]_vars

\* ------------------------------------ Simulator.__init__: the population
DroneCount == 5
MaxNodes == 8
\* speeds drawn by random.randint(5, 60): the two ends of the range
SpeedSet == {5, 60}

\* mutated role test: one node too few
NextFlagOffByOne(flag, i) == IF n_nodes - i < DroneCount THEN 1 ELSE flag

\* lines 57-58: the flag is set once n_nodes - i <= 5 and never cleared
NextFlag(flag, i) == IF n_nodes - i <= DroneCount THEN 1 ELSE flag

PopInit ==
    /\ HETEROGENEOUS \in BOOLEAN
    /\ n_nodes \in 0..MaxNodes
    /\ idx = 0
    /\ sensor_drone_flag = 0
    /\ drones = <<>>

\* one iteration of `for i in range(n_nodes)`
CreateNode ==
    /\ idx < n_nodes
    /\ \E speed \in (IF HETEROGENEOUS THEN SpeedSet ELSE {20}) :
        /\ sensor_drone_flag' = NextFlag(sensor_drone_flag, idx)
        /\ drones' = Append(drones,
               [node_id |-> idx, speed |-> speed,
                sensor_drone_flag |-> NextFlag(sensor_drone_flag, idx)])
    /\ idx' = idx + 1
    /\ UNCHANGED <<HETEROGENEOUS, n_nodes>>
    /\ UNCHANGED <<engineVars, callVars, envVars, chartVars, calls,
                   samplerVars>>

InitPop ==
    /\ MetricsInit /\ CallInit /\ Idle /\ ChartIdle /\ PopInit
    /\ NoCalls /\ SamplerIdle

NextPop == CreateNode

SpecPop == InitPop /\ [][NextPop]_vars

\* ------------------------------------------------ value, and SpecCounters
\* lines 101-103: what value(key, default) returns; a non-int attribute is
\* returned as the object it is
ValueResult(key, default) ==
    IF HasAttr(key)
    THEN IF key \in IntAttrs THEN GetIntAttr(key) ELSE "object"
    ELSE DynamicGet(key, default)

\* value mutated: self._dynamic[key] in place of .get(key, default), which
\* makes the defaultdict create the entry
ValueBodyCreating(key, default) ==
    /\ summary' = NoSummary
    /\ raised' = "none"
    /\ ret' = IF HasAttr(key) THEN ValueResult(key, default)
              ELSE DynamicGet(key, 0)
    /\ dynamic' = IF HasAttr(key) \/ key \in DOMAIN dynamic THEN dynamic
                  ELSE (key :> 0) @@ dynamic
    /\ UNCHANGED <<network_results, listVars, dictVars, packetVars,
                   counterVars, mac_delay, statVars, logVars>>

ValueBody(key, default) ==
    /\ summary' = NoSummary
    /\ raised' = "none"
    /\ ret' = ValueResult(key, default)
    /\ UNCHANGED <<network_results, engineVars>>

MaxCalls == 3
\* a well-known counter, a list field, and two ad hoc labels
CounterKeys == {"collision_num", "mac_delay", "retransmits", "foo"}
CounterDeltas == {-1, 2, 3}
Defaults == {0, 7}

CallCount ==
    \E key \in CounterKeys, delta \in CounterDeltas :
        /\ Len(calls) < MaxCalls
        /\ CountBody(key, delta)
        /\ calls' = Append(calls,
               [name |-> "count", key |-> key, arg |-> delta])
        /\ UNCHANGED <<envVars, chartVars, popVars, samplerVars>>

CallValue ==
    \E key \in CounterKeys, default \in Defaults :
        /\ Len(calls) < MaxCalls
        /\ ValueBody(key, default)
        /\ calls' = Append(calls,
               [name |-> "value", key |-> key, arg |-> default])
        /\ UNCHANGED <<envVars, chartVars, popVars, samplerVars>>

NextCounters ==
    \/ CallCount
    \/ CallValue

SpecCounters == Init /\ [][NextCounters]_vars

\* ------------------------------------------------------------ SpecRatio
\* one run: packets are generated with consecutive ids, some arrive, control
\* packets are counted, and the summary is printed once at the end
RatioPackets == 5
MaxControl == 2

RatioGenerate ==
    /\ summary.kind # "ok"
    /\ Cardinality(datapacket_generated) < RatioPackets
    /\ RegisterGeneratedBody(Cardinality(datapacket_generated) + 1)
    /\ UNCHANGED <<envVars, chartVars, popVars, calls, samplerVars>>

RatioArrive ==
    /\ summary.kind # "ok"
    /\ \E id \in datapacket_generated \ datapacket_arrived :
           RegisterArrivedBody(id, FactOf(id))
    /\ UNCHANGED <<envVars, chartVars, popVars, calls, samplerVars>>

RatioControl ==
    /\ summary.kind # "ok"
    /\ control_packet_num < MaxControl
    /\ CountBody("control_packet_num", 1)
    /\ UNCHANGED <<envVars, chartVars, popVars, calls, samplerVars>>

RatioPrint ==
    /\ summary.kind # "ok"
    /\ PrintMetricsBody(TRUE)
    /\ UNCHANGED <<envVars, chartVars, popVars, calls, samplerVars>>

NextRatio ==
    \/ RatioGenerate
    \/ RatioArrive
    \/ RatioControl
    \/ RatioPrint

SpecRatio == Init /\ [][NextRatio]_vars

\* ---------------------------------------------------------- SpecSampler
\* sample_packet_attributes, run in two executions side by side.  Sizes are
\* kept in 1/PerMB of a MB; random() has Resolution equally likely values.
MaxDraws == 2
PerMB == 16000
Resolution == 16
PyModulus == 64
NpModulus == 8

MB(n, d) == (n * PerMB) \div d

\* config (not in the source tree): labels, weights in tenths, priorities
PKT_TYPE_PMF == <<"text", "image", "video">>
PKT_TYPE_PROB == <<5, 3, 2>>
PRIORITY_MAP == [t \in {"text", "image", "video"} |->
                    IF t = "text" THEN 2 ELSE IF t = "image" THEN 1 ELSE 0]

\* the global generator of `random`: state, next state, value of random()
PyNext(s) == (5 * s + 3) % PyModulus
PyRandom(s) == s \div (PyModulus \div Resolution)

\* numpy's global generator
NpNext(s) == (5 * s + 1) % NpModulus

\* random.choices(population, weights=weights)[0] with random() = u/Resolution:
\* bisect of u/Resolution * total in the cumulative weights
Choices(population, weights, u) ==
    LET n == Len(population)
        cum(i) == SumSeq(SubSeq(weights, 1, i))
        total == cum(n)
    IN  population[Cardinality({i \in 1..(n - 1) :
                        cum(i) * Resolution <= u * total}) + 1]

\* random.uniform(a, b) = a + (b - a) * random()
Uniform(a, b, u) == a + ((b - a) * u) \div Resolution

\* random.normalvariate(mu, sigma): the standard deviate, in halves
ZHalf == <<-14, -13, -6, -4, -3, -2, -1, 0, 0, 1, 2, 3, 4, 6, 12, 14>>
NormalVariate(mu, sigma, u) == mu + (sigma * ZHalf[u + 1]) \div 2

\* np.random.lognormal(mean=log(1), sigma=0.5): exp(0.5 z) for the deviates
\* z = -3, -2, -1, -0.5, 0.5, 1, 2, 3
LogNormal(k) ==
    <<3570, 5886, 9704, 12461, 20544, 26380, 43493, 71707>>[k + 1]

\* the video size with the floor left out
VideoSizeNoFloor(x) == x

\* max(0.001, x)
VideoSize(x) == IF x > MB(1, 1000) THEN x ELSE MB(1, 1000)

\* one call of sample_packet_attributes from generator states py and np
SampleProfile(py, np) ==
    LET pkt_type == Choices(PKT_TYPE_PMF, PKT_TYPE_PROB, PyRandom(py))
        py1 == PyNext(py)
    IN  IF pkt_type = "text"
        THEN [type |-> pkt_type,
              size |-> Uniform(MB(5, 100), MB(20, 100), PyRandom(py1)),
              prio |-> PRIORITY_MAP[pkt_type],
              py |-> PyNext(py1), np |-> np]
        ELSE IF pkt_type = "image"
        THEN [type |-> pkt_type,
              size |-> LogNormal(np),
              prio |-> PRIORITY_MAP[pkt_type],
              py |-> py1, np |-> NpNext(np)]
        ELSE [type |-> pkt_type,
              size |-> VideoSize(NormalVariate(MB(6, 1), MB(1, 1),
                                               PyRandom(py1))),
              prio |-> PRIORITY_MAP[pkt_type],
              py |-> PyNext(py1), np |-> np]

Profile(p) == <<p.type, p.size, p.prio>>

\* both executions seed `random` alike; numpy's generator is left as it is
SamplerInit ==
    /\ py_random \in 0..(PyModulus - 1)
    /\ py_random2 = py_random
    /\ np_random \in 0..(NpModulus - 1)
    /\ np_random2 \in 0..(NpModulus - 1)
    /\ samples = <<>>
    /\ samples2 = <<>>

\* the next sample call, made in both executions
Sample ==
    /\ Len(samples) < MaxDraws
    /\ LET p == SampleProfile(py_random, np_random)
           q == SampleProfile(py_random2, np_random2)
       IN  /\ samples' = Append(samples, Profile(p))
           /\ py_random' = p.py
           /\ np_random' = p.np
           /\ samples2' = Append(samples2, Profile(q))
           /\ py_random2' = q.py
           /\ np_random2' = q.np
    /\ UNCHANGED <<engineVars, callVars, envVars, chartVars, popVars, calls>>

InitSampler ==
    /\ MetricsInit /\ CallInit /\ Idle /\ ChartIdle /\ PopIdle /\ NoCalls
    /\ SamplerInit

NextSampler == Sample

SpecSampler == InitSampler /\ [][NextSampler]_vars

\* ------------------------------------------------------------ SpecStats
\* the recording calls of Metrics next to print_metrics, plot_basic_stats,
\* count and value
MaxRecords == 3
MaxPlots == 1

\* a call that returns None and raises nothing
ReturnsNone ==
    /\ ret' = "none"
    /\ raised' = "none"
    /\ summary' = NoSummary
    /\ UNCHANGED network_results

\* d[k] of a defaultdict, before the entry exists and after
CountOf(d, k) == IF k \in DOMAIN d THEN d[k] ELSE 0
Bucket(d, k) == IF k \in DOMAIN d THEN d[k] ELSE <<>>

\* record_packet_stat with the priority count set instead of raised
RecordPacketStatSetsPriority(pkt_type, size_MB, priority) ==
    /\ packet_sizes' = Append(packet_sizes, size_MB)
    /\ packet_type_counts' =
           (pkt_type :> CountOf(packet_type_counts, pkt_type) + 1)
               @@ packet_type_counts
    /\ packet_priority_counts' = (priority :> 1) @@ packet_priority_counts
    /\ UNCHANGED <<listVars, dictVars, packetVars, counterVars, mac_delay,
                   uav_capacities, dynamic, logVars>>
    /\ ReturnsNone

RecordPacketStatBody(pkt_type, size_MB, priority) ==
    /\ packet_sizes' = Append(packet_sizes, size_MB)
    /\ packet_type_counts' =
           (pkt_type :> CountOf(packet_type_counts, pkt_type) + 1)
               @@ packet_type_counts
    /\ packet_priority_counts' =
           (priority :> CountOf(packet_priority_counts, priority) + 1)
               @@ packet_priority_counts
    /\ UNCHANGED <<listVars, dictVars, packetVars, counterVars, mac_delay,
                   uav_capacities, dynamic, logVars>>
    /\ ReturnsNone

RecordUavCapacityBody(node_id, compute_rate) ==
    /\ uav_capacities' = Append(uav_capacities, compute_rate)
    /\ UNCHANGED <<listVars, dictVars, packetVars, counterVars, mac_delay,
                   packet_sizes, packet_type_counts, packet_priority_counts,
                   dynamic, logVars>>
    /\ ReturnsNone

RecordQueueLengthBody(node_id, timestamp, queue_length) ==
    /\ queue_length_log' =
           Append(queue_length_log, <<node_id, timestamp, queue_length>>)
    /\ UNCHANGED <<listVars, dictVars, packetVars, counterVars, mac_delay,
                   statVars, dynamic, delay_by_priority>>
    /\ ReturnsNone

\* record_delay putting the new sample first
RecordDelayPrepends(priority, delay) ==
    /\ delay_by_priority' =
           (priority :> <<delay>> \o Bucket(delay_by_priority, priority))
               @@ delay_by_priority
    /\ UNCHANGED <<listVars, dictVars, packetVars, counterVars, mac_delay,
                   statVars, dynamic, queue_length_log>>
    /\ ReturnsNone

RecordDelayBody(priority, delay) ==
    /\ delay_by_priority' =
           (priority :> Append(Bucket(delay_by_priority, priority), delay))
               @@ delay_by_priority
    /\ UNCHANGED <<listVars, dictVars, packetVars, counterVars, mac_delay,
                   statVars, dynamic, queue_length_log>>
    /\ ReturnsNone

RECURSIVE SumValues(_)
\* sum(d.values())
SumValues(d) ==
    IF DOMAIN d = {} THEN 0
    ELSE LET k == CHOOSE x \in DOMAIN d : TRUE
         IN  d[k] + SumValues([x \in DOMAIN d \ {k} |-> d[x]])

RECURSIVE SumLens(_)
\* the number of samples held in all buckets of d
SumLens(d) ==
    IF DOMAIN d = {} THEN 0
    ELSE LET k == CHOOSE x \in DOMAIN d : TRUE
         IN  Len(d[k]) + SumLens([x \in DOMAIN d \ {k} |-> d[x]])

\* the number of record calls made so far
Recorded ==
    Len(packet_sizes) + Len(uav_capacities) + Len(queue_length_log)
        + SumLens(delay_by_priority)

StatTypes == {"text", "video"}
StatSizes == {MB(1, 10)}
StatPriorities == {0, 2}
StatNodes == {0, 1}
StatTimes == {Interval}
StatLengths == {3}
StatDelays == {250, 400}
StatRates == {20}
StatKeys == {"queue_length_log", "foo"}

RecordPacketStat ==
    /\ Recorded < MaxRecords
    /\ \E t \in StatTypes, sz \in StatSizes, p \in StatPriorities :
           RecordPacketStatBody(t, sz, p)
    /\ UNCHANGED <<envVars, chartVars, popVars, calls, samplerVars>>

RecordUavCapacity ==
    /\ Recorded < MaxRecords
    /\ \E n \in StatNodes, c \in StatRates : RecordUavCapacityBody(n, c)
    /\ UNCHANGED <<envVars, chartVars, popVars, calls, samplerVars>>

RecordQueueLength ==
    /\ Recorded < MaxRecords
    /\ \E n \in StatNodes, t \in StatTimes, q \in StatLengths :
           RecordQueueLengthBody(n, t, q)
    /\ UNCHANGED <<envVars, chartVars, popVars, calls, samplerVars>>

RecordDelay ==
    /\ Recorded < MaxRecords
    /\ \E p \in StatPriorities, d \in StatDelays : RecordDelayBody(p, d)
    /\ UNCHANGED <<envVars, chartVars, popVars, calls, samplerVars>>

StatsPrint ==
    /\ PrintMetricsBody(TRUE)
    /\ UNCHANGED <<envVars, chartVars, popVars, calls, samplerVars>>

StatsPlot ==
    /\ plot_calls < MaxPlots
    /\ PlotBasicStatsBody
    /\ ReturnsNone
    /\ UNCHANGED <<engineVars, envVars, popVars, calls, samplerVars>>

StatsCount ==
    /\ \E key \in StatKeys :
           /\ DynamicGet(key, 0) < MaxCount
           /\ CountBody(key, 1)
    /\ UNCHANGED <<envVars, chartVars, popVars, calls, samplerVars>>

StatsValue ==
    /\ \E key \in StatKeys : ValueBody(key, 0)
    /\ UNCHANGED <<envVars, chartVars, popVars, calls, samplerVars>>

InitStats ==
    /\ MetricsInit /\ CallInit /\ Idle /\ ChartInit /\ PopIdle /\ NoCalls
    /\ SamplerIdle

NextStats ==
    \/ RecordPacketStat
    \/ RecordUavCapacity
    \/ RecordQueueLength
    \/ RecordDelay
    \/ StatsPrint
    \/ StatsPlot
    \/ StatsCount
    \/ StatsValue

SpecStats == InitStats /\ [][NextStats]_vars

\* ======================================================== claims, Spec
Undefined == "undefined"

\* the last call was print_metrics
Printed == summary.kind # "none"

\* C1: print_metrics is read-only on the engine: a step in which the summary
\* is computed leaves every stored list, set, map and counter as it was.
C1_PrintReadOnly == [][summary'.kind # "none" => UNCHANGED engineVars]_vars

\* C2: a summary computed right after a summary was emitted, with no recording
\* in between, reports the same figures as the one just emitted.
C2_SummaryIdempotent ==
    summary.kind = "ok" =>
        PrintOutcome(AppendValues(delivery_time, deliver_time_dict),
                     AppendValues(throughput, throughput_dict),
                     AppendValues(hop_cnt, hop_cnt_dict), TRUE) = summary

\* C3: the delivered ids (and the ids of the stored delivery facts) are always
\* generated ids, and a call that signals UnknownPacketError leaves the
\* delivered set and the stored delivery facts unchanged.
C3_DeliveredSubsetOfGenerated ==
    /\ [](/\ datapacket_arrived \subseteq datapacket_generated
          /\ Keys(deliver_time_dict) \subseteq datapacket_generated
          /\ Keys(throughput_dict) \subseteq datapacket_generated
          /\ Keys(hop_cnt_dict) \subseteq datapacket_generated)
    /\ [][raised' = "UnknownPacketError" =>
              UNCHANGED <<datapacket_arrived, dictVars>>]_vars

\* an unknown arrival was reported after a packet had been delivered
C3_Witness == raised = "UnknownPacketError" /\ datapacket_arrived # {}

\* C4: whenever the generated count is positive, a summary reports no more
\* delivered packets than generated ones and a PDR within [0, 100].
C4_PdrWithinBounds ==
    (summary.kind = "ok" /\ summary.generated > 0) =>
        /\ summary.arrived <= summary.generated
        /\ 0 <= summary.pdr.num
        /\ summary.pdr.num <= 100 * summary.pdr.den

\* C5: a summary computed with nothing delivered (here: with a non-zero
\* generated count, so that the PDR line is passed) completes without raising
\* and reports the routing load as the undefined sentinel.
C5_RoutingLoadSentinel ==
    (Printed /\ datapacket_arrived = {} /\ datapacket_generated_num # 0) =>
        /\ summary.kind = "ok"
        /\ summary.rl = Undefined

\* C6: a summary computed with a generated count of 0 completes without
\* raising and reports the PDR as the undefined sentinel.
C6_PdrSentinel ==
    (Printed /\ datapacket_generated_num = 0) =>
        /\ summary.kind = "ok"
        /\ summary.pdr = Undefined

\* ===================================================== claims, SpecSim
TerminalFirings == {i \in DOMAIN fired : fired[i].kind = "timeout_perf"}

\* C7: when the end-of-run summary raises, the chart-export step of the
\* terminal action is still performed and the timeline is not halted (so the
\* heartbeat keeps firing).
C7_SummaryErrorContained ==
    perf_pc = "failed" => (plot_calls = 1 /\ ~env_crashed)

\* C8: the terminal reporting action fires at most once, only at time
\* total_simulation_time - 1, and it has fired exactly once as soon as the
\* timeline is past that time.
C8_TerminalFiresOnce ==
    /\ Cardinality(TerminalFirings) <= 1
    /\ \A i \in TerminalFirings : fired[i].time = total_simulation_time - 1
    /\ env_now > total_simulation_time - 1 =>
           Cardinality(TerminalFirings) = 1

\* the heartbeat has fired after the terminal time, the terminal action once
C8_Witness ==
    /\ env_now > total_simulation_time - 1
    /\ Cardinality(TerminalFirings) = 1
    /\ fired[Len(fired)].kind = "timeout_time"

\* C9: actions fire in non-decreasing order of trigger time, and actions due
\* at one time fire in the order they were registered (event ids).
C9_FiringOrder ==
    \A i, j \in DOMAIN fired :
        i < j => /\ fired[i].time <= fired[j].time
                 /\ fired[i].time = fired[j].time =>
                        fired[i].eid < fired[j].eid

\* the terminal action and a heartbeat re-registration fired at the same time
C9_Witness ==
    \E i, j \in DOMAIN fired :
        /\ fired[i].kind = "timeout_perf"
        /\ fired[j].kind = "timeout_time"
        /\ fired[i].time = fired[j].time

HeartbeatFirings ==
    {i \in DOMAIN fired : fired[i].kind \in {"init_time", "timeout_time"}}

\* the heartbeat has fired at 0, Interval, 2 * Interval, ... in this order
\* and, once started, is registered for the time of its last firing + Interval
HeartbeatOnTheGrid ==
    /\ \A i \in HeartbeatFirings :
           fired[i].time =
               Cardinality({j \in HeartbeatFirings : j < i}) * Interval
    /\ Beats > 0 =>
           /\ \E e \in env_queue :
                  e.kind = "timeout_time" /\ e.time = Beats * Interval
           /\ \A e \in env_queue :
                  e.kind \in {"init_time", "timeout_time"} =>
                      e.time = Beats * Interval

\* C16: the heartbeat first fires at time 0, is re-registered after a firing
\* at t for exactly t + Interval, so fires at every k * Interval and at no
\* other time, and the terminal action having fired does not stop it.
C16_HeartbeatEveryInterval ==
    /\ HeartbeatOnTheGrid
    /\ TerminalFirings # {} => ~env_crashed

\* ===================================================== claims, SpecPop
Min(a, b) == IF a < b THEN a ELSE b

\* C10: after population setup the last min(5, N) indices carry role flag 1
\* and every earlier index role flag 0.
C10_LastFiveAreDrones ==
    idx = n_nodes =>
        /\ Len(drones) = n_nodes
        /\ \A k \in 1..n_nodes :
               /\ drones[k].node_id = k - 1
               /\ drones[k].sensor_drone_flag =
                      IF k - 1 >= n_nodes - Min(DroneCount, n_nodes)
                      THEN 1 ELSE 0

\* N = 7 set up: indices 0..1 sensors, 2..6 drones
C10_Witness ==
    /\ n_nodes = 7 /\ idx = 7
    /\ [k \in 1..7 |-> drones[k].sensor_drone_flag] = <<0, 0, 1, 1, 1, 1, 1>>

\* ================================================ claims, SpecCounters
AdHocKeys == CounterKeys \ (IntAttrs \cup OtherAttrs)

RECURSIVE SumDeltas(_, _)
\* the sum of the deltas of the count calls on key k in trace log
SumDeltas(log, k) ==
    IF log = <<>> THEN 0
    ELSE (IF Head(log).name = "count" /\ Head(log).key = k
          THEN Head(log).arg ELSE 0) + SumDeltas(Tail(log), k)

Counted(k) ==
    \E i \in DOMAIN calls : calls[i].name = "count" /\ calls[i].key = k

LastCall == calls[Len(calls)]

\* C11: for an ad hoc key, value(key) is the sum of the deltas counted on it,
\* every count call returns that running total, and value(k, d) on a key
\* never counted returns d.
C11_AdHocCounterSum ==
    /\ \A k \in AdHocKeys, d \in Defaults :
           ValueResult(k, d) = IF Counted(k) THEN SumDeltas(calls, k) ELSE d
    /\ (calls # <<>> /\ LastCall.key \in AdHocKeys) =>
           ret = IF Counted(LastCall.key)
                 THEN SumDeltas(calls, LastCall.key) ELSE LastCall.arg

\* count("retransmits", 3); count("retransmits", 2); value("retransmits") = 5
C11_Witness ==
    /\ Len(calls) = 3
    /\ calls[1] = [name |-> "count", key |-> "retransmits", arg |-> 3]
    /\ calls[2] = [name |-> "count", key |-> "retransmits", arg |-> 2]
    /\ calls[3] = [name |-> "value", key |-> "retransmits", arg |-> 0]
    /\ ret = 5
    /\ ValueResult("foo", 0) = 0

ValueStep ==
    /\ Len(calls') = Len(calls) + 1
    /\ calls'[Len(calls')].name = "value"

\* C20: value changes no field of the engine and creates no ad hoc entry:
\* a key never counted has no entry, and value(k, d) on it returns d, also
\* after earlier value calls on k.
C20_ValueIsPureRead ==
    /\ [][ValueStep => UNCHANGED engineVars]_vars
    /\ [](\A k \in AdHocKeys : ~Counted(k) => k \notin DOMAIN dynamic)
    /\ []((calls # <<>> /\ LastCall.name = "value"
             /\ LastCall.key \in AdHocKeys /\ ~Counted(LastCall.key))
            => ret = LastCall.arg)

\* value("foo", 0), then value("foo", 7) returns 7 and no entry exists
C20_Witness ==
    /\ Len(calls) = 2
    /\ calls[1] = [name |-> "value", key |-> "foo", arg |-> 0]
    /\ calls[2] = [name |-> "value", key |-> "foo", arg |-> 7]
    /\ ret = 7
    /\ "foo" \notin DOMAIN dynamic

\* =================================================== claims, SpecRatio
\* C12: with G > 0 packets generated, D of them arrived and C control packets
\* recorded, the summary reports PDR = D / G * 100 and routing load = C / D.
C12_PdrAndRoutingLoad ==
    summary.kind = "ok" =>
        LET G == Cardinality(datapacket_generated)
            D == Cardinality(datapacket_arrived)
            C == control_packet_num
        IN  /\ G > 0 /\ 0 < D /\ D <= G
            /\ summary.pdr.num * G = 100 * D * summary.pdr.den
            /\ summary.rl.num * D = C * summary.rl.den

\* 5 generated, 4 arrived, 2 control packets: PDR 80 %, routing load 1/2
\* (the proportions of 100, 80 and 40)
C12_Witness ==
    /\ summary.kind = "ok"
    /\ Cardinality(datapacket_generated) = 5
    /\ Cardinality(datapacket_arrived) = 4
    /\ control_packet_num = 2
    /\ summary.pdr = [num |-> 80, den |-> 1]
    /\ summary.rl = [num |-> 1, den |-> 2]

\* ================================================= claims, SpecSampler
\* C13: two executions that seed the one random source alike and make the
\* same sample calls return the same sequence of (type, size, priority),
\* whatever the state of any other generator.
C13_ReproducibleFromOneSource ==
    samples = samples2

\* C14: every profile has a configured type, a size > 0, a text size within
\* [0.05, 0.20] MB, a video size of at least 0.001 MB (the floor itself when
\* the draw was not positive), and the priority the configured map gives
\* its type.
C14_ProfileWithinContract ==
    \A i \in 1..Len(samples) :
        LET type == samples[i][1]
            size == samples[i][2]
            prio == samples[i][3]
        IN  /\ type \in {PKT_TYPE_PMF[k] : k \in 1..Len(PKT_TYPE_PMF)}
            /\ size > 0
            /\ type = "text" => MB(5, 100) <= size /\ size <= MB(20, 100)
            /\ type = "video" => size >= MB(1, 1000)
            /\ prio = PRIORITY_MAP[type]

\* a video whose draw was not positive, returned at the floor, next to a
\* profile of another type
C14_Witness ==
    /\ \E i \in 1..Len(samples) :
           samples[i] = <<"video", MB(1, 1000), PRIORITY_MAP["video"]>>
    /\ \E i \in 1..Len(samples) : samples[i][1] # "video"

\* =================================================== claims, SpecStats
\* C15: the results directory is created and chart files are written only
\* when the export flag is on and the source datasets are non-empty.
C15_ExportOnlyWithFlagAndData ==
    (~ENABLE_STATS \/ (packet_sizes = <<>> /\ uav_capacities = <<>>))
        => (~results_dir /\ results_files = {})

IsPrefix(a, b) == Len(a) <= Len(b) /\ SubSeq(b, 1, Len(a)) = a

\* every stored element of every log stays where it is
LogsExtended ==
    /\ IsPrefix(queue_length_log, queue_length_log')
    /\ DOMAIN delay_by_priority \subseteq DOMAIN delay_by_priority'
    /\ \A p \in DOMAIN delay_by_priority :
           IsPrefix(delay_by_priority[p], delay_by_priority'[p])

\* the number of elements the step adds to the logs
LogGrowth ==
    (Len(queue_length_log') + SumLens(delay_by_priority'))
        - (Len(queue_length_log) + SumLens(delay_by_priority))

\* C17: the queue-length log and the per-priority delay buckets are
\* append-only: a record_queue_length / record_delay call adds one element at
\* the end of one sequence, and every other operation leaves the logs as they
\* are.
C17_LogsAppendOnly ==
    [][/\ LogsExtended
       /\ LogGrowth = IF RecordQueueLength \/ RecordDelay THEN 1 ELSE 0]_vars

\* a queue sample, then two delays of priority 2 kept in call order
C17_Witness ==
    /\ queue_length_log = <<<<1, Interval, 3>>>>
    /\ DOMAIN delay_by_priority = {2}
    /\ delay_by_priority[2] = <<400, 250>>

\* C19: the number of recorded packet sizes equals the sum of the type counts
\* and the sum of the priority counts, and a record_packet_stat call raises
\* all three by one.
C19_SizesMatchCounts ==
    /\ [](/\ Len(packet_sizes) = SumValues(packet_type_counts)
          /\ Len(packet_sizes) = SumValues(packet_priority_counts))
    /\ [][RecordPacketStat =>
             /\ Len(packet_sizes') = Len(packet_sizes) + 1
             /\ SumValues(packet_type_counts') =
                    SumValues(packet_type_counts) + 1
             /\ SumValues(packet_priority_counts') =
                    SumValues(packet_priority_counts) + 1]_vars

\* a text and two videos recorded, all of priority 2, then a failed count
C19_Witness ==
    /\ Len(packet_sizes) = 3
    /\ packet_type_counts = [t \in {"text", "video"} |->
                                IF t = "text" THEN 1 ELSE 2]
    /\ DOMAIN packet_priority_counts = {2}
    /\ packet_priority_counts[2] = 3
    /\ raised = "TypeError"

====
